---- MODULE Spec2Model ----
(***************************************************************************)
(* GPU Pulse (src/src/pulse_cli.py): the sampling loop monitor_loop, the   *)
(* Prometheus gauge registry it writes, the module-level LATEST_METRICS    *)
(* list it rebinds, and the single-threaded HTTPServer (DashboardHandler)  *)
(* that reads both from a daemon thread.                                   *)
(*                                                                         *)
(* Float-valued metric fields are kept in fixed point, in thousandths of   *)
(* their unit; the two percentage fields are plain integers as in the      *)
(* code.  tick is kept in tenths (the code adds 0.5 per iteration).        *)
(***************************************************************************)
EXTENDS Integers, Sequences, FiniteSets, TLC

\* ---------------------------------------------------------------- bounds
MaxDevices == 2        \* nvmlDeviceGetCount() in the real-mode runs
MaxCycles == 2         \* loop iterations explored with the HTTP thread and interrupts
MaxMockCycles == 18    \* loop iterations explored for the sampler alone in mock mode
MaxRequests == 1       \* HTTP requests handled in one run

\* ------------------------------------------------------- program constants
\* the mock source answering for as many devices as a machine may have
MockEveryDevice == MaxDevices

TickStep == 5          \* tick += 0.5, in tenths
MockDeviceCount == 1   \* device_count = 1 if mock_mode
MockMemTotal == 80000  \* "mem_total": 80.0

NoMetrics == [none |-> TRUE]
NoList == -1

GaugeOrder == <<"gpu_util", "mem_util", "mem_used", "power_watts", "pcie_tx", "pcie_rx">>

GaugeNames == {GaugeOrder[k] : k \in 1..Len(GaugeOrder)}

\* ------------------------------------------------------------ mock source
\* (math.sin(tick * 0.5) + 1) / 2 for tick = 0, 0.5, 1.0, ..., in millionths
\* (truncated); int(load * 95) and int(load * 80) computed from these entries
\* agree with the floating-point results for every entry of the table.
LoadTable ==
  << 500000, 623701, 739712, 840819, 920735, 974492, 998747, 991992, 954648, 889036,
     799236, 690830, 570560, 445902, 324608, 214219, 121598, 52505, 11234, 353,
     20537, 70532, 147229, 245860, 360292, 483410, 607559, 725022, 828493, 911540,
     968999, 997299, 994679, 961302, 899243, 812361, 706059, 586944, 462424, 340240 >>

load(t) == LoadTable[(t \div TickStep) + 1]

\* random.randint(-2, 2) and random.randint(-5, 5)
GpuJitter == -2..2

MemJitter == -5..5

\* the extreme draws, used where the server thread runs alongside
GpuJitterEnds == {-2, 2}

MemJitterEnds == {-5, 5}

get_mock_metrics(index, t, j1, j2) ==
  [ gpu_util    |-> ((load(t) * 95) \div 1000000) + j1,
    mem_util    |-> ((load(t) * 80) \div 1000000) + j2,
    mem_used    |-> 40000 + ((load(t) * 20) \div 1000),
    mem_total   |-> MockMemTotal,
    power_watts |-> 100000 + ((load(t) * 600) \div 1000),
    pcie_tx     |-> 2000000 + load(t),
    pcie_rx     |-> 4000000 + (load(t) * 2) ]

MockName == "NVIDIA H100 (Simulated)"

\* ------------------------------------------------------------ real source
\* What the NVML queries of one probe return: utilization rates in percent,
\* memory in MiB (the code reads bytes and divides by 1024**3; MiB / 1024 is
\* the same quotient and stays inside TLC's integers), power in milliwatts,
\* PCIe throughput in KB/s.
BusyReading ==
  [gpu |-> 100, memory |-> 60, used |-> 40960, total |-> 81920,
   power |-> 700000, tx |-> 3072, rx |-> 5120]

IdleReading ==
  [gpu |-> 0, memory |-> 7, used |-> 1536, total |-> 81920,
   power |-> 65500, tx |-> 512, rx |-> 100]

RawReadings == {BusyReading, IdleReading}

get_real_metrics(raw) ==
  [ gpu_util    |-> raw.gpu,
    mem_util    |-> raw.memory,
    mem_used    |-> (raw.used * 1000) \div 1024,
    mem_total   |-> (raw.total * 1000) \div 1024,
    power_watts |-> raw.power,
    pcie_tx     |-> (raw.tx * 1000) \div 1024,
    pcie_rx     |-> (raw.rx * 1000) \div 1024 ]

\* nvmlDeviceGetName(handle).decode('utf-8')
DeviceName(index) == IF index = 0 THEN "GPU-A" ELSE "GPU-B"

\* ---------------------------------------------------------------- state
VARIABLES
  mock_mode,        \* monitor_loop's argument, decided by check_nvidia_driver()
  device_count,     \* line 170
  tick,             \* line 171, in tenths
  pc,               \* position of the main thread
  i,                \* loop variable of line 182
  name,             \* local of line 184/188
  metrics,          \* local of line 185/189: a dict, or NoMetrics
  current_batch,    \* local of line 180: the identity of a list object
  heap,             \* the live list objects: identity -> contents
  LATEST_METRICS,   \* module global of line 18: the identity of a list object
  registry,         \* the six Gauges: gauge -> (labels -> value)
  regCycle,         \* history: the iteration that last wrote each series
  cycle,            \* history: the number of iterations started
  trace,            \* history: the publishing events of the current iteration
  limit,            \* the number of iterations explored in this run
  serverUp,         \* serve_forever is running in the daemon thread
  shutdownReq,      \* server.shutdown() has been called
  hpc,              \* position of the server thread
  path,             \* self.path of the request being handled
  rdList,           \* get_html: the list object the for loop iterates
  rdPos,            \* get_html: the list iterator's index
  rows,             \* get_html: the cards rendered so far
  scrapePos,        \* generate_latest: the next gauge family to collect
  scrape,           \* generate_latest: the samples collected so far
  scrapeCyc,        \* history: the iteration that wrote each collected sample
  response,         \* the last response written
  reqs,             \* the number of requests accepted
  sealed,           \* history: the list objects whose for loop has finished
  afterStop,        \* history: the request being handled arrived after the interrupt
  nvml,             \* the NVML library handle: nvmlInit() (line 32), nvmlShutdown() (line 223)
  twin              \* what a second run's get_mock_metrics call returned, and for which call

vars == << mock_mode, device_count, tick, pc, i, name, metrics, current_batch, heap,
           LATEST_METRICS, registry, regCycle, cycle, trace, limit, serverUp,
           shutdownReq, hpc, path, rdList, rdPos, rows, scrapePos, scrape, scrapeCyc,
           response, reqs, sealed, afterStop, nvml, twin >>

samplerVars == << tick, pc, i, name, metrics, current_batch, registry, regCycle,
                  cycle, trace, sealed >>

httpVars == << hpc, path, rdList, rdPos, rows, scrapePos, scrape, scrapeCyc,
               response, reqs, afterStop >>

fixedVars == << mock_mode, device_count, limit >>

procVars == << nvml, twin >>

\* ---------------------------------------------------------------- helpers
Labels(index, nm) == << index, nm >>

EmptyRegistry == [g \in GaugeNames |-> << >>]

\* the gauge's series replaced by the one being set
SetGaugeDropping(reg, g, lab, v) == [reg EXCEPT ![g] = (lab :> v)]

\* Gauge.labels(i, name).inc(v)
IncGauge(reg, g, lab, v) ==
  [reg EXCEPT ![g] = [l \in (DOMAIN @) \cup {lab} |->
                        IF l = lab THEN (IF lab \in DOMAIN @ THEN @[lab] ELSE 0) + v
                                   ELSE @[l]]]

\* a gauge that keeps the largest value it was given
SetGaugeMax(reg, g, lab, v) ==
  [reg EXCEPT ![g] = [l \in (DOMAIN @) \cup {lab} |->
                        IF l # lab THEN @[l]
                        ELSE IF lab \in DOMAIN @ /\ @[lab] > v THEN @[lab] ELSE v]]

\* Gauge.labels(i, name).set(v)
SetGauge(reg, g, lab, v) ==
  [reg EXCEPT ![g] = [l \in (DOMAIN @) \cup {lab} |-> IF l = lab THEN v ELSE @[l]]]

\* lines 193-198 for one stored snapshot m: the gauges from the k-th on
RECURSIVE PublishGauges(_, _, _)
PublishGauges(reg, m, k) ==
  IF k > Len(GaugeOrder) THEN reg
  ELSE PublishGauges(SetGauge(reg, GaugeOrder[k], Labels(m.index, m.name),
                              m[GaugeOrder[k]]), m, k + 1)

\* lines 182-198 for a whole batch: the registry update of one cycle
RECURSIVE PublishCycle(_, _)
PublishCycle(reg, batch) ==
  IF batch = << >> THEN reg
  ELSE PublishCycle(PublishGauges(reg, Head(batch), 1), Tail(batch))

\* The list objects still referenced (Python frees the others).
Collect(h, live) == [id \in (DOMAIN h) \cap live |-> h[id]]

NoTwin == [index |-> -1, tick |-> -1, snapshot |-> NoMetrics]

NoResponse == [status |-> 0, ctype |-> "", body |-> << >>]

\* ------------------------------------------------------------------ Init
InitCommon ==
  /\ device_count = 0
  /\ tick = 0
  /\ pc = "start"
  /\ i = 0
  /\ name = ""
  /\ metrics = NoMetrics
  /\ current_batch = NoList
  /\ heap = (0 :> << >>)
  /\ LATEST_METRICS = 0
  /\ registry = EmptyRegistry
  /\ regCycle = EmptyRegistry
  /\ cycle = 0
  /\ trace = << >>
  /\ serverUp = FALSE
  /\ shutdownReq = FALSE
  /\ hpc = "idle"
  /\ path = ""
  /\ rdList = NoList
  /\ rdPos = 0
  /\ rows = << >>
  /\ scrapePos = 0
  /\ scrape = << >>
  /\ scrapeCyc = << >>
  /\ response = NoResponse
  /\ reqs = 0
  /\ sealed = {0}
  /\ afterStop = FALSE
  /\ nvml = IF mock_mode THEN "unavailable" ELSE "initialized"
  /\ twin = NoTwin

\* __main__: check_nvidia_driver() decides the mode.
Init ==
  /\ mock_mode \in BOOLEAN
  /\ limit = MaxCycles
  /\ InitCommon

InitMock ==
  /\ mock_mode = TRUE
  /\ limit = MaxMockCycles
  /\ InitCommon

\* two mock runs compared
InitTwin ==
  /\ mock_mode = TRUE
  /\ limit = MaxCycles
  /\ InitCommon

\* ------------------------------------------------------- the main thread
StoppedPcs == {"except", "shutdown_wait", "stopped", "exited", "killed"}

\* the statements of the main thread that no try block encloses: lines 166-172,
\* the except handler itself (lines 216-217), and line 223 of the real branch
OutsideTryPcs == {"count", "except", "shutdown_wait", "stopped"}

TryPcs == {"loop", "probe", "test", "set_gpu_util", "set_mem_util", "set_mem_used",
           "set_power_watts", "set_pcie_tx", "set_pcie_rx", "store", "print",
           "assign", "tick", "sleep"}

SetPcs == <<"set_gpu_util", "set_mem_util", "set_mem_used", "set_power_watts",
            "set_pcie_tx", "set_pcie_rx">>

\* lines 162-165: the server thread is started
Start ==
  /\ pc = "start"
  /\ serverUp' = TRUE
  /\ pc' = "count"
  /\ UNCHANGED << tick, i, name, metrics, current_batch, heap, LATEST_METRICS,
                  registry, regCycle, cycle, trace, sealed, shutdownReq >>
  /\ UNCHANGED fixedVars
  /\ UNCHANGED procVars
  /\ UNCHANGED httpVars

\* lines 167-172: the two banner lines, the device count, tick = 0
CountDevices ==
  /\ pc = "count"
  /\ \E n \in 1..MaxDevices :
       device_count' = IF mock_mode THEN MockDeviceCount ELSE n
  /\ tick' = 0
  /\ pc' = "loop"
  /\ UNCHANGED << mock_mode, limit, i, name, metrics, current_batch, heap,
                  LATEST_METRICS, registry, regCycle, cycle, trace, sealed,
                  serverUp, shutdownReq >>
  /\ UNCHANGED procVars
  /\ UNCHANGED httpVars

\* the batch built in place, in the list the global refers to
ReusedList == LATEST_METRICS

\* line 180: current_batch = [] is a new list object
NewList == cycle + 1

\* the global rebound to the batch before the batch is filled
LoopTopAssigning ==
  /\ pc = "loop"
  /\ cycle < limit
  /\ cycle' = cycle + 1
  /\ trace' = << [k |-> "header"], [k |-> "dash"] >>
  /\ LET id == NewList IN
       /\ current_batch' = id
       /\ LATEST_METRICS' = id
       /\ heap' = Collect((id :> << >>) @@ heap, {id, rdList})
       /\ sealed' = (sealed \ {id}) \cap {rdList}
  /\ i' = 0
  /\ pc' = "probe"
  /\ UNCHANGED << tick, name, metrics, registry, regCycle, serverUp, shutdownReq >>
  /\ UNCHANGED fixedVars
  /\ UNCHANGED procVars
  /\ UNCHANGED httpVars

\* lines 175-180: the header is printed and the batch list created
LoopTop ==
  /\ pc = "loop"
  /\ cycle < limit
  /\ cycle' = cycle + 1
  /\ trace' = << [k |-> "header"] >>
  /\ LET id == NewList IN
       /\ current_batch' = id
       /\ heap' = Collect((id :> << >>) @@ heap, {id, LATEST_METRICS, rdList})
       /\ sealed' = (sealed \ {id}) \cap {LATEST_METRICS, rdList}
  /\ i' = 0
  /\ pc' = "probe"
  /\ UNCHANGED << tick, name, metrics, LATEST_METRICS, registry, regCycle,
                  serverUp, shutdownReq >>
  /\ UNCHANGED fixedVars
  /\ UNCHANGED procVars
  /\ UNCHANGED httpVars

\* line 182: the for loop is exhausted
ForDone ==
  /\ pc = "probe"
  /\ i = device_count
  /\ sealed' = sealed \cup {current_batch}
  /\ pc' = "assign"
  /\ UNCHANGED << tick, i, name, metrics, current_batch, heap, LATEST_METRICS,
                  registry, regCycle, cycle, trace, serverUp, shutdownReq >>
  /\ UNCHANGED fixedVars
  /\ UNCHANGED procVars
  /\ UNCHANGED httpVars

\* the synthetic source also answering in a run that started in real mode
ProbeMockFallback(J1, J2) ==
  /\ pc = "probe"
  /\ i < device_count
  /\ name' = MockName
  /\ \E j1 \in J1, j2 \in J2 :
       metrics' = get_mock_metrics(i, tick, j1, j2)
  /\ trace' = Append(trace, [k |-> "probe", i |-> i, ok |-> TRUE])
  /\ pc' = "test"
  /\ UNCHANGED << tick, i, current_batch, heap, LATEST_METRICS, registry, regCycle,
                  cycle, sealed, serverUp, shutdownReq >>
  /\ UNCHANGED fixedVars
  /\ UNCHANGED procVars
  /\ UNCHANGED httpVars

\* lines 183-185
ProbeMock(J1, J2) ==
  /\ pc = "probe"
  /\ i < device_count
  /\ mock_mode
  /\ name' = MockName
  /\ \E j1 \in J1, j2 \in J2 :
       metrics' = get_mock_metrics(i, tick, j1, j2)
  /\ trace' = Append(trace, [k |-> "probe", i |-> i, ok |-> TRUE])
  /\ pc' = "test"
  /\ UNCHANGED << tick, i, current_batch, heap, LATEST_METRICS, registry, regCycle,
                  cycle, sealed, serverUp, shutdownReq >>
  /\ UNCHANGED fixedVars
  /\ UNCHANGED procVars
  /\ UNCHANGED httpVars

\* lines 60-73 as called by a second run of the program with the index and
\* the tick of this run's call: the second run draws its own random numbers
Replay(J1, J2) ==
  /\ pc = "test"
  /\ mock_mode
  /\ twin = NoTwin
  /\ \E j1 \in J1, j2 \in J2 :
       twin' = [index |-> i, tick |-> tick,
                snapshot |-> get_mock_metrics(i, tick, j1, j2)]
  /\ UNCHANGED nvml
  /\ UNCHANGED << heap, LATEST_METRICS, serverUp, shutdownReq >>
  /\ UNCHANGED samplerVars
  /\ UNCHANGED fixedVars
  /\ UNCHANGED httpVars

\* a failed probe answered with a zero-valued snapshot
ZeroMetrics ==
  [ gpu_util |-> 0, mem_util |-> 0, mem_used |-> 0, mem_total |-> 0,
    power_watts |-> 0, pcie_tx |-> 0, pcie_rx |-> 0 ]

\* lines 57-58: what get_real_metrics returns when a metric read raises NVMLError
FailedProbe == NoMetrics

\* lines 187-189, every NVML query answering
ProbeReal(R) ==
  /\ pc = "probe"
  /\ i < device_count
  /\ ~mock_mode
  /\ name' = DeviceName(i)
  /\ \E raw \in R : metrics' = get_real_metrics(raw)
  /\ trace' = Append(trace, [k |-> "probe", i |-> i, ok |-> TRUE])
  /\ pc' = "test"
  /\ UNCHANGED << tick, i, current_batch, heap, LATEST_METRICS, registry, regCycle,
                  cycle, sealed, serverUp, shutdownReq >>
  /\ UNCHANGED fixedVars
  /\ UNCHANGED procVars
  /\ UNCHANGED httpVars

\* lines 187-189, a metric read inside get_real_metrics raising NVMLError
ProbeFailed ==
  /\ pc = "probe"
  /\ i < device_count
  /\ ~mock_mode
  /\ name' = DeviceName(i)
  /\ metrics' = FailedProbe
  /\ trace' = Append(trace, [k |-> "probe", i |-> i, ok |-> FALSE])
  /\ pc' = "test"
  /\ UNCHANGED << tick, i, current_batch, heap, LATEST_METRICS, registry, regCycle,
                  cycle, sealed, serverUp, shutdownReq >>
  /\ UNCHANGED fixedVars
  /\ UNCHANGED procVars
  /\ UNCHANGED httpVars

\* lines 187-188: nvmlDeviceGetHandleByIndex or nvmlDeviceGetName raising
\* NVMLError.  Neither call is inside a try that catches it (line 215 catches
\* KeyboardInterrupt only), so the exception leaves monitor_loop and ends the
\* process, the daemon server thread with it.
ProbeRaise ==
  /\ pc = "probe"
  /\ i < device_count
  /\ ~mock_mode
  /\ trace' = Append(trace, [k |-> "probe", i |-> i, ok |-> FALSE])
  /\ pc' = "crashed"
  /\ serverUp' = FALSE
  /\ UNCHANGED << tick, i, name, metrics, current_batch, heap, LATEST_METRICS,
                  registry, regCycle, cycle, sealed, shutdownReq >>
  /\ UNCHANGED fixedVars
  /\ UNCHANGED procVars
  /\ UNCHANGED httpVars

\* line 191: the truth value of metrics (None is false, the dict is true)
Truthy(m) == m # NoMetrics

\* line 191
IfMetrics ==
  /\ pc = "test"
  /\ IF Truthy(metrics)
       THEN /\ pc' = SetPcs[1]
            /\ i' = i
       ELSE /\ pc' = "probe"
            /\ i' = i + 1
  /\ UNCHANGED << tick, name, metrics, current_batch, heap, LATEST_METRICS,
                  registry, regCycle, cycle, trace, sealed, serverUp, shutdownReq >>
  /\ UNCHANGED fixedVars
  /\ UNCHANGED procVars
  /\ UNCHANGED httpVars

\* lines 193-198, one statement each
SetStep(k) ==
  /\ pc = SetPcs[k]
  /\ LET g == GaugeOrder[k] IN
       /\ registry' = SetGauge(registry, g, Labels(i, name), metrics[g])
       /\ regCycle' = SetGauge(regCycle, g, Labels(i, name), cycle)
       /\ trace' = Append(trace, [k |-> "reg", i |-> i, g |-> g])
  /\ pc' = IF k < Len(SetPcs) THEN SetPcs[k + 1] ELSE "store"
  /\ UNCHANGED << tick, i, name, metrics, current_batch, heap, LATEST_METRICS,
                  cycle, sealed, serverUp, shutdownReq >>
  /\ UNCHANGED fixedVars
  /\ UNCHANGED procVars
  /\ UNCHANGED httpVars

\* lines 201-203
Store ==
  /\ pc = "store"
  /\ metrics' = [name |-> name, index |-> i] @@ metrics
  /\ heap' = [heap EXCEPT ![current_batch] = Append(@, metrics')]
  /\ trace' = Append(trace, [k |-> "store", i |-> i])
  /\ pc' = "print"
  /\ UNCHANGED << tick, i, name, current_batch, LATEST_METRICS, registry, regCycle,
                  cycle, sealed, serverUp, shutdownReq >>
  /\ UNCHANGED fixedVars
  /\ UNCHANGED procVars
  /\ UNCHANGED httpVars

\* lines 206-209, then the next device
PrintDevice ==
  /\ pc = "print"
  /\ trace' = Append(trace, [k |-> "term", i |-> i])
  /\ i' = i + 1
  /\ pc' = "probe"
  /\ UNCHANGED << tick, name, metrics, current_batch, heap, LATEST_METRICS,
                  registry, regCycle, cycle, sealed, serverUp, shutdownReq >>
  /\ UNCHANGED fixedVars
  /\ UNCHANGED procVars
  /\ UNCHANGED httpVars

\* lines 206-209 (or the header lines 177-178): print() raising, as it does
\* with OSError when the terminal or pipe behind stdout is gone.  No try
\* block encloses the publishers except the one of line 215, which catches
\* KeyboardInterrupt only, so the exception leaves monitor_loop and ends the
\* process, the daemon server thread with it.
PrintRaise ==
  /\ pc \in {"loop", "print"}
  /\ pc = "loop" => cycle < limit
  /\ trace' = IF pc = "print" THEN Append(trace, [k |-> "raise", i |-> i]) ELSE trace
  /\ pc' = "crashed"
  /\ serverUp' = FALSE
  /\ UNCHANGED << tick, i, name, metrics, current_batch, heap, LATEST_METRICS,
                  registry, regCycle, cycle, sealed, shutdownReq >>
  /\ UNCHANGED fixedVars
  /\ UNCHANGED procVars
  /\ UNCHANGED httpVars

\* the global rebound only when the batch is not empty
AssignKeeping ==
  /\ pc = "assign"
  /\ LATEST_METRICS' = IF heap[current_batch] = << >> THEN LATEST_METRICS
                                                      ELSE current_batch
  /\ heap' = Collect(heap, {LATEST_METRICS', current_batch, rdList})
  /\ sealed' = sealed \cap {LATEST_METRICS', current_batch, rdList}
  /\ trace' = Append(trace, [k |-> "dash"])
  /\ pc' = "tick"
  /\ UNCHANGED << tick, i, name, metrics, current_batch, registry, regCycle,
                  cycle, serverUp, shutdownReq >>
  /\ UNCHANGED fixedVars
  /\ UNCHANGED procVars
  /\ UNCHANGED httpVars

\* line 211: the global is rebound to the batch list
Assign ==
  /\ pc = "assign"
  /\ LATEST_METRICS' = current_batch
  /\ heap' = Collect(heap, {current_batch, rdList})
  /\ sealed' = sealed \cap {current_batch, rdList}
  /\ trace' = Append(trace, [k |-> "dash"])
  /\ pc' = "tick"
  /\ UNCHANGED << tick, i, name, metrics, current_batch, registry, regCycle,
                  cycle, serverUp, shutdownReq >>
  /\ UNCHANGED fixedVars
  /\ UNCHANGED procVars
  /\ UNCHANGED httpVars

\* line 212
Tick ==
  /\ pc = "tick"
  /\ tick' = tick + TickStep
  /\ pc' = "sleep"
  /\ UNCHANGED << i, name, metrics, current_batch, heap, LATEST_METRICS, registry,
                  regCycle, cycle, trace, sealed, serverUp, shutdownReq >>
  /\ UNCHANGED fixedVars
  /\ UNCHANGED procVars
  /\ UNCHANGED httpVars

\* line 213
Sleep ==
  /\ pc = "sleep"
  /\ pc' = "loop"
  /\ UNCHANGED << tick, i, name, metrics, current_batch, heap, LATEST_METRICS,
                  registry, regCycle, cycle, trace, sealed, serverUp, shutdownReq >>
  /\ UNCHANGED fixedVars
  /\ UNCHANGED procVars
  /\ UNCHANGED httpVars

\* lines 215: KeyboardInterrupt raised in the main thread, between any two
\* statements of the try block
Interrupt ==
  /\ pc \in TryPcs
  /\ pc' = "except"
  /\ UNCHANGED << tick, i, name, metrics, current_batch, heap, LATEST_METRICS,
                  registry, regCycle, cycle, trace, sealed, serverUp, shutdownReq >>
  /\ UNCHANGED fixedVars
  /\ UNCHANGED procVars
  /\ UNCHANGED httpVars

\* the interrupt caught inside the loop, which then goes on
ExceptContinue ==
  /\ pc = "except"
  /\ pc' = "loop"
  /\ UNCHANGED << tick, i, name, metrics, current_batch, heap, LATEST_METRICS,
                  registry, regCycle, cycle, trace, sealed, serverUp, shutdownReq >>
  /\ UNCHANGED fixedVars
  /\ UNCHANGED procVars
  /\ UNCHANGED httpVars

\* lines 216-217: server.shutdown() asks serve_forever to leave its loop ...
ExceptHandler ==
  /\ pc = "except"
  /\ shutdownReq' = TRUE
  /\ pc' = "shutdown_wait"
  /\ UNCHANGED << tick, i, name, metrics, current_batch, heap, LATEST_METRICS,
                  registry, regCycle, cycle, trace, sealed, serverUp >>
  /\ UNCHANGED fixedVars
  /\ UNCHANGED procVars
  /\ UNCHANGED httpVars

\* ... and blocks until it has; monitor_loop then returns
ShutdownReturn ==
  /\ pc = "shutdown_wait"
  /\ ~serverUp
  /\ pc' = "stopped"
  /\ UNCHANGED << tick, i, name, metrics, current_batch, heap, LATEST_METRICS,
                  registry, regCycle, cycle, trace, sealed, serverUp, shutdownReq >>
  /\ UNCHANGED fixedVars
  /\ UNCHANGED procVars
  /\ UNCHANGED httpVars

\* KeyboardInterrupt raised in the main thread outside the try block: nothing
\* catches it, the interpreter prints the traceback and exits, and the daemon
\* server thread ends with the process; server.shutdown() (if not yet called)
\* and nvmlShutdown() are not executed.
InterruptOutside ==
  /\ pc \in OutsideTryPcs
  /\ pc = "stopped" => ~mock_mode
  /\ pc' = "killed"
  /\ serverUp' = FALSE
  /\ UNCHANGED << tick, i, name, metrics, current_batch, heap, LATEST_METRICS,
                  registry, regCycle, cycle, trace, sealed, shutdownReq >>
  /\ UNCHANGED fixedVars
  /\ UNCHANGED procVars
  /\ UNCHANGED httpVars

\* line 223: nvmlShutdown(), in the real branch of __main__ only
nvmlShutdown == IF mock_mode THEN nvml ELSE "released"

\* lines 221-227: monitor_loop has returned; the real branch releases the
\* NVML handle, and the script ends
Exit ==
  /\ pc = "stopped"
  /\ nvml' = nvmlShutdown
  /\ pc' = "exited"
  /\ UNCHANGED << tick, i, name, metrics, current_batch, heap, LATEST_METRICS,
                  registry, regCycle, cycle, trace, sealed, serverUp, shutdownReq,
                  twin >>
  /\ UNCHANGED fixedVars
  /\ UNCHANGED httpVars

\* ----------------------------------------------------- the server thread
Paths == {"/metrics", "/", "/favicon.ico"}

\* serve_forever accepts a request (HTTPServer handles one at a time);
\* do_GET, lines 77, 82, 87
Request(allowed) ==
  /\ serverUp
  /\ ~shutdownReq
  /\ hpc = "idle"
  /\ reqs < MaxRequests
  /\ reqs' = reqs + 1
  /\ \E p \in allowed :
       /\ path' = p
       /\ hpc' = IF p = "/metrics" THEN "scrape" ELSE IF p = "/" THEN "html" ELSE "notfound"
  /\ scrapePos' = 1
  /\ scrape' = << >>
  /\ scrapeCyc' = << >>
  /\ rows' = << >>
  /\ rdPos' = 0
  /\ response' = NoResponse
  /\ afterStop' = (pc \in StoppedPcs)
  /\ UNCHANGED << rdList, heap, LATEST_METRICS, serverUp, shutdownReq >>
  /\ UNCHANGED samplerVars
  /\ UNCHANGED fixedVars
  /\ UNCHANGED procVars

\* line 81, generate_latest(): the registry's collectors are read one gauge
\* family after the other, in the order the Gauges were registered (lines 10-15)
ScrapeStep ==
  /\ serverUp
  /\ hpc = "scrape"
  /\ scrapePos <= Len(GaugeOrder)
  /\ LET g == GaugeOrder[scrapePos] IN
       /\ scrape' = (g :> registry[g]) @@ scrape
       /\ scrapeCyc' = (g :> regCycle[g]) @@ scrapeCyc
  /\ scrapePos' = scrapePos + 1
  /\ UNCHANGED afterStop
  /\ UNCHANGED << hpc, path, rdList, rdPos, rows, response, reqs, heap,
                  LATEST_METRICS, serverUp, shutdownReq >>
  /\ UNCHANGED samplerVars
  /\ UNCHANGED fixedVars
  /\ UNCHANGED procVars

\* lines 78-81: the response is written
ScrapeDone ==
  /\ serverUp
  /\ hpc = "scrape"
  /\ scrapePos > Len(GaugeOrder)
  /\ response' = [status |-> 200, ctype |-> "text/plain", body |-> scrape]
  /\ scrape' = << >>
  /\ scrapeCyc' = << >>
  /\ scrapePos' = 0
  /\ hpc' = "idle"
  /\ UNCHANGED afterStop
  /\ UNCHANGED << path, rdList, rdPos, rows, reqs, heap, LATEST_METRICS, serverUp,
                  shutdownReq >>
  /\ UNCHANGED samplerVars
  /\ UNCHANGED fixedVars
  /\ UNCHANGED procVars

\* line 96
util_color(m) ==
  IF m.gpu_util > 90 THEN "red" ELSE IF m.gpu_util < 50 THEN "green" ELSE "orange"

\* Python's {x:.1f} and {x:.0f} of a value kept in thousandths (ties upwards)
Fmt1(x) == (x + 50) \div 100

Fmt0(x) == (x + 500) \div 1000

\* lines 98-123: one gpu-card
Card(m) ==
  [ name |-> m.name, index |-> m.index, gpu_util |-> m.gpu_util,
    mem_util |-> m.mem_util, color |-> util_color(m),
    vram |-> Fmt1(m.mem_used), total |-> Fmt1(m.mem_total),
    power |-> Fmt0(m.power_watts), tx |-> Fmt0(m.pcie_tx), rx |-> Fmt0(m.pcie_rx) ]

\* line 94: the for statement evaluates LATEST_METRICS once and iterates that list
HtmlLoad ==
  /\ serverUp
  /\ hpc = "html"
  /\ rdList' = LATEST_METRICS
  /\ rdPos' = 0
  /\ rows' = << >>
  /\ hpc' = "html_iter"
  /\ UNCHANGED afterStop
  /\ UNCHANGED << path, scrapePos, scrape, scrapeCyc, response, reqs, heap,
                  LATEST_METRICS, serverUp, shutdownReq >>
  /\ UNCHANGED samplerVars
  /\ UNCHANGED fixedVars
  /\ UNCHANGED procVars

\* lines 94-123: the list iterator yields the next element, if there is one
HtmlIter ==
  /\ serverUp
  /\ hpc = "html_iter"
  /\ rdPos < Len(heap[rdList])
  /\ rows' = Append(rows, Card(heap[rdList][rdPos + 1]))
  /\ rdPos' = rdPos + 1
  /\ UNCHANGED afterStop
  /\ UNCHANGED << hpc, path, rdList, scrapePos, scrape, scrapeCyc, response, reqs,
                  heap, LATEST_METRICS, serverUp, shutdownReq >>
  /\ UNCHANGED samplerVars
  /\ UNCHANGED fixedVars
  /\ UNCHANGED procVars

\* lines 83-86, 125-156: the iterator is exhausted and the page is written
HtmlDone ==
  /\ serverUp
  /\ hpc = "html_iter"
  /\ rdPos >= Len(heap[rdList])
  /\ response' = [status |-> 200, ctype |-> "text/html", body |-> rows]
  /\ rows' = << >>
  /\ rdPos' = 0
  /\ rdList' = NoList
  /\ heap' = Collect(heap, {LATEST_METRICS, current_batch})
  /\ sealed' = sealed \cap {LATEST_METRICS, current_batch}
  /\ hpc' = "idle"
  /\ UNCHANGED afterStop
  /\ UNCHANGED << path, scrapePos, scrape, scrapeCyc, reqs, LATEST_METRICS, serverUp,
                  shutdownReq >>
  /\ UNCHANGED << tick, pc, i, name, metrics, current_batch, registry, regCycle,
                  cycle, trace >>
  /\ UNCHANGED fixedVars
  /\ UNCHANGED procVars

\* an unknown path answered with an empty dashboard page
NotFoundAsPage ==
  /\ serverUp
  /\ hpc = "notfound"
  /\ response' = [status |-> 200, ctype |-> "text/html", body |-> << >>]
  /\ hpc' = "idle"
  /\ UNCHANGED afterStop
  /\ UNCHANGED << path, rdList, rdPos, rows, scrapePos, scrape, scrapeCyc, reqs,
                  heap, LATEST_METRICS, serverUp, shutdownReq >>
  /\ UNCHANGED samplerVars
  /\ UNCHANGED fixedVars
  /\ UNCHANGED procVars

\* lines 88-89
NotFound ==
  /\ serverUp
  /\ hpc = "notfound"
  /\ response' = [status |-> 404, ctype |-> "", body |-> << >>]
  /\ hpc' = "idle"
  /\ UNCHANGED afterStop
  /\ UNCHANGED << path, rdList, rdPos, rows, scrapePos, scrape, scrapeCyc, reqs,
                  heap, LATEST_METRICS, serverUp, shutdownReq >>
  /\ UNCHANGED samplerVars
  /\ UNCHANGED fixedVars
  /\ UNCHANGED procVars

\* serve_forever sees the shutdown request once no request is being handled
ServerStop ==
  /\ serverUp
  /\ shutdownReq
  /\ hpc = "idle"
  /\ serverUp' = FALSE
  /\ UNCHANGED << heap, LATEST_METRICS, shutdownReq >>
  /\ UNCHANGED samplerVars
  /\ UNCHANGED httpVars
  /\ UNCHANGED fixedVars
  /\ UNCHANGED procVars

\* The statements of the loop that query no source.
NextCore ==
  \/ Start
  \/ CountDevices
  \/ LoopTop
  \/ ForDone
  \/ IfMetrics
  \/ \E k \in 1..Len(SetPcs) : SetStep(k)
  \/ Store
  \/ PrintDevice
  \/ Assign
  \/ Tick
  \/ Sleep

\* The main thread alone, in mock mode, with every jitter draw.
NextSampler ==
  \/ NextCore
  \/ ProbeMock(GpuJitter, MemJitter)

\* ... and a second mock run making one of the same calls
NextTwin ==
  \/ NextSampler
  \/ Replay(GpuJitterEnds, MemJitterEnds)

\* The main thread's other steps in both modes: probe failures, the interrupt
\* and the shutdown it causes.
NextMain ==
  \/ NextCore
  \/ ProbeFailed
  \/ ProbeRaise
  \/ PrintRaise
  \/ Interrupt
  \/ InterruptOutside
  \/ ExceptHandler
  \/ ShutdownReturn
  \/ Exit
  \/ ServerStop

\* The main thread in both modes; the server thread receives no request.
NextLoop ==
  \/ NextMain
  \/ ProbeMock(GpuJitterEnds, MemJitterEnds)
  \/ ProbeReal(RawReadings)

\* The main thread as explored alongside a serving server thread.
NextServed ==
  \/ NextMain
  \/ ProbeMock(GpuJitterEnds, MemJitterEnds)
  \/ ProbeReal({BusyReading})

\* ... with browsers requesting the dashboard and unknown paths
NextDash ==
  \/ NextServed
  \/ Request(Paths \ {"/metrics"})
  \/ HtmlLoad
  \/ HtmlIter
  \/ HtmlDone
  \/ NotFound

\* ... with Prometheus scraping /metrics
NextScrape ==
  \/ NextServed
  \/ Request({"/metrics"})
  \/ ScrapeStep
  \/ ScrapeDone

Next ==
  \/ NextServed
  \/ Request(Paths)
  \/ ScrapeStep
  \/ ScrapeDone
  \/ HtmlLoad
  \/ HtmlIter
  \/ HtmlDone
  \/ NotFound

\* The main thread's steps when the operator never interrupts.
SamplerStep ==
  \/ NextCore
  \/ ProbeMock(GpuJitterEnds, MemJitterEnds)
  \/ ProbeReal({BusyReading})
  \/ ProbeFailed
  \/ ProbeRaise
  \/ PrintRaise

\* ... alongside the server thread handling requests
NextLive ==
  \/ SamplerStep
  \/ Request(Paths)
  \/ ScrapeStep
  \/ ScrapeDone
  \/ HtmlLoad
  \/ HtmlIter
  \/ HtmlDone
  \/ NotFound

Spec == Init /\ [][Next]_vars

\* The main thread is scheduled again and again: the interpreter switches
\* between the two threads, so a request being handled only delays it, and
\* time.sleep(1.0) returns.
SpecLive == Init /\ [][NextLive]_vars /\ WF_vars(SamplerStep)

SpecLoop == Init /\ [][NextLoop]_vars

SpecDash == Init /\ [][NextDash]_vars

SpecScrape == Init /\ [][NextScrape]_vars

SpecMock == InitMock /\ [][NextSampler]_vars

SpecTwin == InitTwin /\ [][NextTwin]_vars

\* ------------------------------------------------------------- properties
Devices == 0..(MaxDevices - 1)

\* The events of the current iteration's trace of one kind
Events(kind) == {n \in DOMAIN trace : trace[n].k = kind}

\* device d was probed in the current iteration and the probe failed
FailedNow(d) == \E n \in Events("probe") : trace[n].i = d /\ ~trace[n].ok

\* The label sets of the series of device d
SeriesOf(reg, g, d) == {lab \in DOMAIN reg[g] : lab[1] = d}

\* every label set with a series under some gauge
AllLabels(reg) == UNION {DOMAIN reg[g] : g \in GaugeNames}

\* get_html, mid-iteration: the list being iterated and the cards rendered
C1_ReaderInv ==
  hpc = "html_iter" =>
    /\ rdList \in DOMAIN heap
    /\ rdList \in sealed
    /\ rdPos <= Len(heap[rdList])
    /\ rows = [n \in 1..rdPos |-> Card(heap[rdList][n])]

\* a finished batch is not changed by any step
C1_Step == \A id \in sealed \cap sealed' : id \in DOMAIN heap' /\ heap'[id] = heap[id]

\* C1: while get_html iterates, the list it iterates is the finished batch of
\* one iteration (never one still being filled), the cards rendered so far are
\* the cards of its first elements, and a finished batch never changes; the
\* page written when the iterator is exhausted is therefore one whole batch.
C1_ReaderSeesOneCycle == []C1_ReaderInv /\ [][C1_Step]_vars

\* the reader started on a two-device batch, rendered one card while the next
\* batch was being filled, and the other after the sampler had stored that
\* different batch as the Dashboard State
C1_Witness ==
  /\ hpc = "html_iter"
  /\ rdPos = 2
  /\ rdPos = Len(heap[rdList])
  /\ LATEST_METRICS # rdList
  /\ heap[LATEST_METRICS] # heap[rdList]
  /\ pc = "tick"

\* C2: every finished /metrics scrape holds, for each device whose six series
\* it read, six values written by the same iteration.
C2_ScrapeSeesOneCycle ==
  (hpc = "scrape" /\ scrapePos > Len(GaugeOrder)) =>
    \A lab \in AllLabels(scrapeCyc) :
      (\A g \in GaugeNames : lab \in DOMAIN scrapeCyc[g]) =>
        \A g, h \in GaugeNames : scrapeCyc[g][lab] = scrapeCyc[h][lab]

Percent(v) == v \in 0..100

\* C3: every published percentage (registry and Dashboard State) is in 0..100.
C3_PercentagesInRange ==
  /\ \A g \in {"gpu_util", "mem_util"} :
       \A lab \in DOMAIN registry[g] : Percent(registry[g][lab])
  /\ \A n \in DOMAIN heap[LATEST_METRICS] :
       /\ Percent(heap[LATEST_METRICS][n].gpu_util)
       /\ Percent(heap[LATEST_METRICS][n].mem_util)

\* line 211 has run in the current iteration
BatchStored == pc \in {"tick", "sleep", "loop"} /\ LATEST_METRICS = current_batch

\* C4: a device whose probe returned None in the current iteration is not in
\* the iteration's batch (nor in the Dashboard State once the batch is
\* stored), and none of its series was written in this iteration.
C4_FailedProbeAbsent ==
  \A d \in Devices :
    (pc \in TryPcs /\ cycle > 0 /\ FailedNow(d)) =>
      /\ \A n \in DOMAIN heap[current_batch] : heap[current_batch][n].index # d
      /\ BatchStored =>
           \A n \in DOMAIN heap[LATEST_METRICS] : heap[LATEST_METRICS][n].index # d
      /\ \A n \in Events("reg") : trace[n].i # d
      /\ \A g \in GaugeNames :
           \A lab \in SeriesOf(regCycle, g, d) : regCycle[g][lab] < cycle

\* device 0 failed in the second iteration, device 1 did not, and the batch
\* without device 0 is the Dashboard State
C4_Witness ==
  /\ pc = "sleep"
  /\ cycle = 2
  /\ FailedNow(0)
  /\ Len(heap[LATEST_METRICS]) = 1
  /\ heap[LATEST_METRICS][1].index = 1
  /\ SeriesOf(regCycle, "gpu_util", 0) # {}

\* C5: a hardware query failing for one device is not fatal: after a failed
\* probe the main thread is still in the loop (or was stopped by the operator).
C5_ProbeFailureNotFatal ==
  (\E n \in Events("probe") : ~trace[n].ok) => pc \in TryPcs \cup StoppedPcs

\* a device absent from the current iteration: its series in the registry
C6_StaleInv ==
  \A d \in Devices :
    (pc \in TryPcs /\ FailedNow(d)) =>
      \A lab \in AllLabels(registry) :
        lab[1] = d =>
          /\ \A g \in GaugeNames : lab \in DOMAIN registry[g]
          /\ \A g, h \in GaugeNames : regCycle[g][lab] = regCycle[h][lab]
          /\ regCycle["gpu_util"][lab] < cycle

\* what one step may do to a series of the registry
C6_Step ==
  \A g \in GaugeNames : \A lab \in DOMAIN registry[g] :
    /\ lab \in DOMAIN registry'[g]
    /\ registry'[g][lab] # registry[g][lab] =>
         /\ trace' = Append(trace, [k |-> "reg", i |-> lab[1], g |-> g])
         /\ ~FailedNow(lab[1])
         /\ registry'[g][lab] = metrics[g]

\* C6: a series, once in the registry, stays, and its value changes only by a
\* gauge write for that device in an iteration where its probe succeeded; a
\* device absent from the current iteration still has its six series, all
\* from one earlier iteration.
C6_RegistryKeepsLastValues == []C6_StaleInv /\ [][C6_Step]_vars

\* device 1 was published in the first iteration and failed in the second,
\* where device 0 was published with other values; device 1's series are the
\* first iteration's
C6_Witness ==
  /\ pc = "sleep"
  /\ cycle = 2
  /\ FailedNow(1)
  /\ Labels(1, DeviceName(1)) \in DOMAIN registry["pcie_rx"]
  /\ Labels(0, DeviceName(0)) \in DOMAIN registry["pcie_rx"]
  /\ regCycle["pcie_rx"][Labels(1, DeviceName(1))] = 1
  /\ regCycle["pcie_rx"][Labels(0, DeviceName(0))] = 2
  /\ registry["pcie_rx"][Labels(1, DeviceName(1))] # registry["pcie_rx"][Labels(0, DeviceName(0))]

\* C7: the registry update of a cycle, applied again to the registry it
\* produced, changes nothing: for every batch and every registry reached, and
\* for the registry the loop itself has just updated with its batch.
C7_PublishIdempotent ==
  /\ \A id \in DOMAIN heap :
       LET once == PublishCycle(registry, heap[id]) IN
         PublishCycle(once, heap[id]) = once
  /\ (pc \in {"assign", "tick", "sleep"}) =>
       PublishCycle(registry, heap[current_batch]) = registry

\* the loop has published a two-device batch with non-zero values over a
\* registry that held other values for them
C7_Witness ==
  /\ pc = "assign"
  /\ cycle = 2
  /\ Len(heap[current_batch]) = 2
  /\ heap[current_batch] # heap[LATEST_METRICS]
  /\ Len(heap[LATEST_METRICS]) = 2
  /\ \A n \in 1..2 : heap[current_batch][n].gpu_util > 0

PublishedTo(kind) == {trace[n].i : n \in Events(kind)}

C9_StoppedNotHalfWritten ==
  pc = "stopped" =>
    \A lab \in AllLabels(regCycle) :
      (\A g \in GaugeNames : lab \in DOMAIN regCycle[g]) =>
        \A g, h \in GaugeNames : regCycle[g][lab] = regCycle[h][lab]

\* a scrape that arrived after the interrupt
C10_ScrapeAfterStop ==
  (afterStop /\ path = "/metrics") =>
    /\ \A g \in DOMAIN scrape : scrape[g] = registry[g]
    /\ response.status = 200 => response.body = registry

\* what one step may do once the interrupt has arrived
C10_Step ==
  pc \in StoppedPcs =>
    /\ pc' \in StoppedPcs
    /\ cycle' = cycle
    /\ registry' = registry
    /\ LATEST_METRICS' = LATEST_METRICS
    /\ heap'[LATEST_METRICS] = heap[LATEST_METRICS]

\* C10: from the interrupt on, the main thread stays stopped, no iteration
\* starts, and the registry and the Dashboard State keep their contents; a
\* /metrics request that arrived after the interrupt reads, family by family,
\* and answers, exactly that registry.
C10_StoppedIsFinal == []C10_ScrapeAfterStop /\ [][C10_Step]_vars

\* the loop was interrupted in its second iteration between two gauge writes,
\* a scrape arrived afterwards and was answered, and the server was shut down
C10_Witness ==
  /\ pc = "stopped"
  /\ afterStop
  /\ response.status = 200
  /\ path = "/metrics"
  /\ ~mock_mode
  /\ Labels(0, DeviceName(0)) \in DOMAIN regCycle["pcie_rx"]
  /\ regCycle["gpu_util"][Labels(0, DeviceName(0))] = 2
  /\ regCycle["pcie_rx"][Labels(0, DeviceName(0))] = 1

\* C11: a publisher failing for a device (its terminal block raising) does not
\* end the loop: the failure is caught, so the main thread is still inside the
\* loop afterwards (or was stopped by the operator) and the cycle's remaining
\* publishers and the next iteration still run.
C11_PublisherFailureIsolated ==
  Events("raise") # {} => pc \in TryPcs \cup StoppedPcs

\* the snapshots get_mock_metrics can return for one call
MockSnapshots(index, t) ==
  {get_mock_metrics(index, t, j1, j2) : j1 \in GpuJitter, j2 \in MemJitter}

\* the snapshots get_real_metrics can return when every query answers
RealSnapshots == {get_real_metrics(raw) : raw \in RawReadings}

\* the mode, the NVML handle and the published names agree in every state
C12_Inv ==
  /\ mock_mode <=> nvml = "unavailable"
  /\ \A lab \in AllLabels(registry) : lab[2] = MockName <=> mock_mode
  /\ \A id \in DOMAIN heap : \A n \in DOMAIN heap[id] :
       heap[id][n].name = MockName <=> mock_mode

\* what one step may do to the mode and the handle, and what a probe returns
C12_Step ==
  /\ mock_mode' = mock_mode
  /\ nvml' # nvml => nvml = "initialized" /\ nvml' = "released"
  /\ (pc = "probe" /\ pc' = "test") =>
       IF mock_mode
         THEN name' = MockName /\ metrics' \in MockSnapshots(i, tick)
         ELSE name' = DeviceName(i) /\ metrics' \in RealSnapshots \cup {NoMetrics}

\* C12: the mode never changes after startup; a run whose NVML initialization
\* was unavailable never initializes NVML later and every probe of it returns
\* a synthetic snapshot under the simulated name; a run in real mode probes
\* the hardware only (a snapshot of NVML readings or None) and never
\* publishes the simulated name.
C12_ModeFixedAtStartup == []C12_Inv /\ [][C12_Step]_vars

\* a mock run has completed two iterations without any NVML handle
C12_Witness ==
  /\ mock_mode
  /\ nvml = "unavailable"
  /\ cycle = 2
  /\ pc = "sleep"
  /\ Labels(0, MockName) \in DOMAIN registry["pcie_rx"]
  /\ heap[LATEST_METRICS][1].name = MockName

\* C13: in every terminated state reached after an operator interrupt the
\* HTTP server was shut down by server.shutdown() and is no longer serving,
\* and an NVML handle that was initialized has been released.
C13_OrderlyShutdown ==
  pc \in {"exited", "killed"} =>
    /\ shutdownReq
    /\ ~serverUp
    /\ nvml # "initialized"

\* the Sampler state of the main thread's position: Sampling while a device is
\* probed (lines 183-191), Publishing while gauges, batch, terminal and
\* Dashboard State are written (lines 193-211), Sleeping from line 212 on
Phase ==
  CASE pc \in {"start", "count"} -> "Idle"
    [] pc = "loop" -> IF cycle = 0 THEN "Idle" ELSE "Sleeping"
    [] pc = "probe" -> IF i < device_count THEN "Sampling" ELSE "Publishing"
    [] pc = "test" -> "Sampling"
    [] pc \in {"tick", "sleep"} -> "Sleeping"
    [] pc \in StoppedPcs -> "Stopped"
    [] pc \in TryPcs \ {"loop", "probe", "test", "tick", "sleep"} -> "Publishing"
    [] OTHER -> "Failed"

CycleTransitions ==
  { <<"Idle", "Sampling">>, <<"Sampling", "Publishing">>,
    <<"Publishing", "Sleeping">>, <<"Sleeping", "Sampling">> }

\* C14: every change of the Sampler's state is one of Idle -> Sampling ->
\* Publishing -> Sleeping -> Sampling, or the operator interrupt taking it to
\* Stopped; no step takes it anywhere else.
C14_OnlyCycleTransitions ==
  [][Phase' # Phase =>
       \/ <<Phase, Phase'>> \in CycleTransitions
       \/ Phase' = "Stopped" /\ pc' \in {"except", "killed"}]_vars

\* at least one iteration of the run has stored its batch (line 211)
CycleCompleted == cycle >= 2 \/ (cycle = 1 /\ pc \in {"tick", "sleep", "loop"})

\* C15: in mock mode, once an iteration has completed, every gauge has exactly
\* one series, labelled (0, simulated name), the Dashboard State is exactly
\* one snapshot, of index 0 and the simulated name, and no probe of the
\* current iteration has failed.
C15_MockOneSeriesPerGauge ==
  mock_mode =>
    /\ \A n \in Events("probe") : trace[n].ok /\ trace[n].i = 0
    /\ CycleCompleted =>
         /\ \A g \in GaugeNames : DOMAIN registry[g] = {Labels(0, MockName)}
         /\ Len(heap[LATEST_METRICS]) = 1
         /\ heap[LATEST_METRICS][1].index = 0
         /\ heap[LATEST_METRICS][1].name = MockName

\* three iterations of a mock run have completed, with different values
C15_Witness ==
  /\ mock_mode
  /\ cycle = 3
  /\ pc = "sleep"
  /\ regCycle["pcie_rx"][Labels(0, MockName)] = 3
  /\ registry["pcie_rx"][Labels(0, MockName)] # 4000000 + (load(0) * 2)

\* C16: a second run's synthetic probe for the device index and tick of this
\* run's probe returns the snapshot this run obtained.
C16_MockDeterministic ==
  (pc = "test" /\ twin.index = i /\ twin.tick = tick) => twin.snapshot = metrics

\* the response written for the request's path
C17_ResponseInv ==
  /\ response.status # 0 =>
       CASE path = "/metrics" ->
              /\ response.status = 200
              /\ response.ctype = "text/plain"
              /\ DOMAIN response.body = GaugeNames
         [] path = "/" ->
              /\ response.status = 200
              /\ response.ctype = "text/html"
         [] OTHER ->
              /\ response.status = 404
              /\ response.body = << >>
  /\ hpc = "scrape" =>
       \A g \in DOMAIN scrape : scrapeCyc[g] = regCycle[g] => scrape[g] = registry[g]

\* what a step of the request handler may do
C17_Step ==
  /\ httpVars' # httpVars =>
       /\ registry' = registry
       /\ LATEST_METRICS' = LATEST_METRICS
       /\ heap'[LATEST_METRICS] = heap[LATEST_METRICS]
  /\ (hpc = "scrape" /\ scrapePos' = scrapePos + 1) =>
       scrape'[GaugeOrder[scrapePos]] = registry[GaugeOrder[scrapePos]]
  /\ (hpc = "scrape" /\ hpc' = "idle") => response'.body = scrape
  /\ response' # response =>
       \/ response' = NoResponse
       \/ response = NoResponse /\ hpc # "idle" /\ hpc' = "idle"

\* C17: the response to /metrics is 200 text/plain with every gauge family as
\* the registry held it when the handler read it (equal to the registry's
\* family unless the sampler has written it since), the response to / is 200
\* text/html, the response to any other path is 404 with an empty body, one
\* response is written per request, and no step of the handler changes the
\* registry or the Dashboard State.
C17_Routing == []C17_ResponseInv /\ [][C17_Step]_vars

\* an unknown path was answered while the registry and the Dashboard State
\* held the first iteration's two devices
C17_Witness ==
  /\ path = "/favicon.ico"
  /\ response.status = 404
  /\ response.body = << >>
  /\ cycle = 1
  /\ pc = "sleep"
  /\ Len(heap[LATEST_METRICS]) = 2
  /\ Labels(1, DeviceName(1)) \in DOMAIN registry["pcie_rx"]

\* the main thread is between line 212 and the next iteration's first statement
Sleeping == pc \in {"tick", "sleep"} \/ (pc = "loop" /\ cycle >= 1)

\* the devices whose probe returned a snapshot in the current iteration
OkDevices == {trace[n].i : n \in {m \in Events("probe") : trace[m].ok}}

\* the Dashboard State while Sleeping after iteration cycle
C18_Inv ==
  Sleeping =>
    LET dash == heap[LATEST_METRICS] IN
      /\ LATEST_METRICS = cycle
      /\ LATEST_METRICS = current_batch
      /\ {dash[n].index : n \in DOMAIN dash} = OkDevices
      /\ Len(dash) = Cardinality(OkDevices)
      /\ Len(dash) = Cardinality(Events("store"))
      /\ \A n, m \in DOMAIN dash : n < m => dash[n].index < dash[m].index
      /\ \A n \in DOMAIN dash :
           dash[n].name = IF mock_mode THEN MockName ELSE DeviceName(dash[n].index)

\* how a batch gets its elements: the snapshot just probed, by line 203 only
C18_Step ==
  /\ \A id \in DOMAIN heap \cap DOMAIN heap' :
       heap'[id] # heap[id] =>
         /\ id = current_batch
         /\ id = cycle
         /\ pc = "store"
         /\ i \in OkDevices
         /\ heap'[id] = Append(heap[id], [name |-> name, index |-> i] @@ metrics)
  /\ \A id \in DOMAIN heap' \ DOMAIN heap : heap'[id] = << >> /\ id = cycle'
  /\ metrics' # metrics =>
       \/ pc = "probe" /\ pc' \in {"test", "crashed"}
       \/ pc = "store" /\ metrics' = [name |-> name, index |-> i] @@ metrics

\* C18: while Sleeping after iteration n the Dashboard State is the list
\* created by iteration n, holding exactly the devices whose probe succeeded
\* in iteration n, once each, in ascending index order; a list starts empty
\* and only the iteration that created it appends to it, each element being
\* the snapshot that iteration's probe just returned.
C18_DashboardIsLastCycle == []C18_Inv /\ [][C18_Step]_vars

\* iteration 2 of a real run found device 0 idle and device 1 busy
C18_Witness ==
  /\ pc = "sleep"
  /\ cycle = 2
  /\ ~mock_mode
  /\ Len(heap[LATEST_METRICS]) = 2
  /\ heap[LATEST_METRICS][1].gpu_util = 0
  /\ heap[LATEST_METRICS][2].gpu_util = 100
  /\ regCycle["gpu_util"][Labels(0, DeviceName(0))] = 2

\* the registry and the Dashboard State compared, device by device
C19_Inv ==
  \A n \in DOMAIN heap[LATEST_METRICS] :
    LET m == heap[LATEST_METRICS][n]
        lab == Labels(m.index, m.name)
    IN  \A g \in GaugeNames :
          /\ lab \in DOMAIN registry[g]
          /\ regCycle[g][lab] >= LATEST_METRICS
          /\ Sleeping =>
               /\ registry[g][lab] = m[g]
               /\ regCycle[g][lab] = cycle

\* C19: every device in the Dashboard State has its six series in the
\* registry, written by the iteration that built the Dashboard State or a
\* later one (the registry is never behind); while Sleeping the six values
\* are the device's Dashboard State values, written by the same iteration.
C19_RegistryMatchesDashboard == []C19_Inv

\* a one-device real run is Sleeping after its second iteration, which read
\* the idle values
C19_Witness ==
  /\ pc = "tick"
  /\ cycle = 2
  /\ ~mock_mode
  /\ device_count = 1
  /\ Len(heap[LATEST_METRICS]) = 1
  /\ heap[LATEST_METRICS][1].power_watts = get_real_metrics(IdleReading).power_watts
  /\ registry["power_watts"][Labels(0, DeviceName(0))] = get_real_metrics(IdleReading).power_watts

\* C20: with the main thread fairly scheduled and no interrupt, every
\* iteration that starts probing goes on to store its batch as the Dashboard
\* State and to sleep, with tick advanced by one step per iteration, and
\* (unless it is the last iteration explored) the next iteration then starts
\* probing; the requests handled meanwhile do not prevent it.
C20_EveryIterationCompletes ==
  \A n \in 1..MaxCycles :
    /\ (cycle = n /\ pc = "probe") ~>
         (cycle = n /\ pc = "sleep" /\ LATEST_METRICS = n /\ tick = n * TickStep)
    /\ (cycle = n /\ pc = "sleep" /\ n < limit) ~> (cycle = n + 1 /\ pc = "probe")

====
